---- MODULE Spec2Model ----
(***************************************************************************)
(* CodeCraft Studio: the generation-orchestration pipeline.                *)
(*                                                                         *)
(* The model follows src/ai_agent.py (InvictusAIAgent), the two request    *)
(* handlers of src/routes.py that start a generation (generate and         *)
(* generate_with_license), BusinessLicenseManager.validate_license of      *)
(* src/business_licensing.py and VideoGenerator.create_cinematic_video of  *)
(* src/video_generator.py.                                                 *)
(*                                                                         *)
(* A worker is one server process: it runs routes.py once, so it owns one  *)
(* InvictusAIAgent (routes.py:33) whose learning_data was loaded from      *)
(* logs/ai_learning.json when the process started.  Workers share the      *)
(* database and that file.  A worker handles one request at a time         *)
(* (signal.alarm only works in the main thread).                           *)
(*                                                                         *)
(* The collaborators the code does not control are the environment: the    *)
(* LLM service, the TTS service, the audio encoder behind                  *)
(* AudioSegment.export, the database (a commit may raise) and the 25 s     *)
(* alarm of /generate, which may fire at any point while it is armed.      *)
(***************************************************************************)
EXTENDS Integers, Sequences, FiniteSets, TLC

\* ------------------------------------------------------------------ bounds

\* Total number of requests the workers accept in one behaviour.
MaxRequests == 2

\* Number of commits the database fails in one behaviour.
MaxStorageFaults == 1

\* Number of generations one agent learns from in one behaviour of SpecLearn.
MaxLearned == 101

\* The worker processes.
Workers == {"w1", "w2"}

\* ------------------------------------------------------------ text helpers
\* A text is a sequence of one-character strings.

LowerChar(c) ==
    CASE c = "W" -> "w"
      [] c = "E" -> "e"
      [] c = "V" -> "v"
      [] OTHER -> c

\* str.lower()
Lower(s) == [i \in 1..Len(s) |-> LowerChar(s[i])]

\* str.strip(): drop leading and trailing blanks.
RECURSIVE LStrip(_)
LStrip(s) ==
    IF s # <<>> /\ Head(s) = " " THEN LStrip(Tail(s)) ELSE s

RECURSIVE RStrip(_)
RStrip(s) ==
    IF s # <<>> /\ s[Len(s)] = " " THEN RStrip(SubSeq(s, 1, Len(s) - 1)) ELSE s

Strip(s) == LStrip(RStrip(s))

\* Python's `k in s` for strings: k occurs in s as a contiguous substring.
Contains(k, s) ==
    \E i \in 0..(Len(s) - Len(k)) : SubSeq(s, i + 1, i + Len(k)) = k

\* The keywords the style tables look for.
KwBattle    == <<"b","a","t","t","l","e">>
KwWar       == <<"w","a","r">>
KwChampion  == <<"c","h","a","m","p","i","o","n">>
KwSacred    == <<"s","a","c","r","e","d">>
KwDivine    == <<"d","i","v","i","n","e">>
KwEternal   == <<"e","t","e","r","n","a","l">>
KwEmotional == <<"e","m","o","t","i","o","n","a","l">>
KwLove      == <<"l","o","v","e">>
KwHeart     == <<"h","e","a","r","t">>
KwMystery   == <<"m","y","s","t","e","r","y">>
KwSecret    == <<"s","e","c","r","e","t">>
KwGladiator == <<"g","l","a","d","i","a","t","o","r">>
KwArena     == <<"a","r","e","n","a">>
KwPrayer    == <<"p","r","a","y","e","r">>
KwDark      == <<"d","a","r","k">>
KwShadow    == <<"s","h","a","d","o","w">>
KwMagic     == <<"m","a","g","i","c">>
KwFantasy   == <<"f","a","n","t","a","s","y">>
KwModern    == <<"m","o","d","e","r","n">>
KwPop       == <<"p","o","p">>

\* The themes a request may carry: empty, blank, too short, and a valid one.
ThemeEmpty == <<>>
ThemeBlank == <<" "," "," ">>
ThemeShort == <<"W","a">>
ThemeWar   == <<"W","a","r">>
Themes     == {ThemeEmpty, ThemeBlank, ThemeShort, ThemeWar}

\* data.get('theme', 'Epic Victory'): the theme of a licensed request that
\* carries none.
ThemeDefault == <<"E","p","i","c"," ","V","i","c","t","o","r","y">>

\* Python's None, and a local variable that has not been bound yet.
None  == "None"
Unset == "Unset"

\* ------------------------------------------------------- lyric generation

\* A template table whose lists hold no line.
TemplateLines_empty(key) == << >>

TemplateLines(key) ==
    CASE key = "battle" -> << "Warriors gather in the dawn",
                              "Steel and courage pressing on",
                              "Glory waits beyond the fight",
                              "We are champions of the light" >>
      [] key = "sacred" -> << "Divine light guides our way",
                              "Sacred vows we keep today",
                              "Eternal grace within our souls",
                              "Heaven's plan for us unfolds" >>
      [] OTHER          -> << "Rise above the shadow's call",
                              "Through the fire we stand tall",
                              "Victory echoes through the land",
                              "United we make our final stand" >>

\* The table key generate_template_lyrics selects for a theme.
TemplateKey(theme) ==
    LET t == Lower(theme) IN
    IF Contains(KwBattle, t) \/ Contains(KwWar, t) THEN "battle"
    ELSE IF Contains(KwSacred, t) \/ Contains(KwDivine, t) THEN "sacred"
    ELSE "epic"

\* generate_template_lyrics: verse i (from 0) is a verse when i is even and a
\* chorus otherwise, timed "<30 i>:<30 (i + 1)>"; full_text joins the lines.
generate_template_lyrics(theme) ==
    LET lines == TemplateLines(TemplateKey(theme)) IN
    [ theme     |-> theme,
      full_text |-> lines,
      verses    |-> [ i \in 1..Len(lines) |->
                        [ type   |-> IF (i - 1) % 2 = 0 THEN "verse" ELSE "chorus",
                          lyrics |-> lines[i],
                          timing |-> << (i - 1) * 30, i * 30 >> ] ] ]

\* generate_lyrics_with_ai: the document parsed from the LLM's JSON answer.
\* Its content is the service's; one well-formed answer stands for it.
AiLyrics(theme) ==
    [ theme     |-> theme,
      full_text |-> << "ai line" >>,
      verses    |-> << [ type |-> "verse", lyrics |-> "ai line",
                         timing |-> << 0, 30 >> ] >> ]

\* The local lyrics_data before generate_lyrics has returned.
NoLyrics ==
    [ theme |-> <<>>, full_text |-> <<>>, verses |-> <<>> ]

\* --------------------------------------------------------- style selection

analyze_lyrics_for_voice(theme) ==
    LET t == Lower(theme) IN
    IF Contains(KwBattle, t) \/ Contains(KwWar, t) \/ Contains(KwChampion, t)
      THEN "heroic_male"
    ELSE IF Contains(KwSacred, t) \/ Contains(KwDivine, t) \/ Contains(KwEternal, t)
      THEN "choir"
    ELSE IF Contains(KwEmotional, t) \/ Contains(KwLove, t) \/ Contains(KwHeart, t)
      THEN "soprano"
    ELSE IF Contains(KwMystery, t) \/ Contains(KwSecret, t)
      THEN "whisper"
    ELSE "heroic_male"

\* The keyword table analyze_lyrics_for_style falls back to.
KeywordStyle(t) ==
    IF Contains(KwGladiator, t) \/ Contains(KwArena, t) THEN "gladiator"
    ELSE IF Contains(KwSacred, t) \/ Contains(KwPrayer, t) THEN "gregorian"
    ELSE IF Contains(KwDark, t) \/ Contains(KwShadow, t) THEN "dark"
    ELSE IF Contains(KwMagic, t) \/ Contains(KwFantasy, t) THEN "fantasy"
    ELSE IF Contains(KwEmotional, t) THEN "emotional"
    ELSE IF Contains(KwModern, t) \/ Contains(KwPop, t) THEN "pop"
    ELSE "epic"

\* analyze_lyrics_for_style: the first recorded combination (in list order)
\* whose theme occurs in the requested theme decides; else the keyword table.
analyze_lyrics_for_style(theme, combos) ==
    LET t    == Lower(theme)
        hits == { i \in 1..Len(combos) : Contains(Lower(combos[i].theme), t) }
    IN  IF hits # {}
          THEN combos[CHOOSE i \in hits : \A j \in hits : i <= j].style
          ELSE KeywordStyle(t)

\* ------------------------------------------------------------ artifacts

\* datetime.now().strftime("%Y%m%d_%H%M%S"): the clock to the second.
Timestamp(t) == ToString(t)

\* generate_professional_music_with_voice names the file
\* music_<style>_<timestamp>.mp3.
AudioFileName(style, timestamp) ==
    "music_" \o style \o "_" \o timestamp \o ".mp3"

\* generate_synchronized_video names the file video_<timestamp>.mp4.
VideoFileName(timestamp) == "video_" \o timestamp \o ".mp4"

\* str(e) of the exceptions that reach generate_complete_content's handler.
TimeoutMsg == "Generation timed out"
StorageMsg == "storage error"

\* ------------------------------------------------------------- the database

\* A Generation object in a worker's memory; id 0 until a commit has flushed it.
NewGeneration(theme, voice, music, st) ==
    [ id |-> 0, theme |-> theme, voice_style |-> voice, music_style |-> music,
      status |-> st, audio_file |-> None, video_file |-> None,
      error_message |-> None ]

\* The local `generation` before it is bound ('generation' in locals() is false).
NoGeneration == NewGeneration(<<>>, Unset, Unset, Unset)

\* db.session.commit() succeeding for one object: an added object is inserted
\* under the next id, a persistent one overwrites its row.
CommitId(rows, obj) == IF obj.id = 0 THEN Len(rows) + 1 ELSE obj.id

Committed(rows, obj) ==
    LET row == [obj EXCEPT !.id = CommitId(rows, obj)] IN
    IF obj.id = 0 THEN Append(rows, row) ELSE [rows EXCEPT ![obj.id] = row]

\* db.session.commit() raising: the session rolls back, so a persistent object
\* reloads its row and an object that was only added stays out of the database.
RolledBack(rows, obj) == IF obj.id = 0 THEN obj ELSE rows[obj.id]

\* ---------------------------------------------------------- learning data

\* load_learning_data when logs/ai_learning.json does not exist.
EmptyLearning ==
    [ successful_combinations |-> <<>>,
      style_effectiveness     |-> <<>>,
      generation_history      |-> <<>> ]

\* "Keep only last 100 generations" (generation_history only).
HistoryCap == 100

\* learn_from_generation(theme, style, voice_style, success_rating) on an
\* agent's learning_data, with generation_count already incremented to n.
\* style_effectiveness is kept as the list of (style, rating) pairs.
Learned(data, n, theme, style, voice, rating) ==
    LET combos == IF rating >= 4
                    THEN Append(data.successful_combinations,
                                [ theme |-> theme, style |-> style,
                                  voice_style |-> voice, rating |-> rating ])
                    ELSE data.successful_combinations
        hist   == Append(data.generation_history,
                         [ generation_number |-> n, theme |-> theme,
                           style |-> style, voice_style |-> voice ])
    IN  [ successful_combinations |-> combos,
          style_effectiveness     |-> Append(data.style_effectiveness,
                                             << style, rating >>),
          generation_history      |-> IF Len(hist) > HistoryCap
                                        THEN Tail(hist) ELSE hist ]

\* ------------------------------------------------------------------- state

VARIABLES
    db,          \* the generations table: the committed rows, by id
    license,     \* the business_licenses row of LicenseKey
    learnFile,   \* the content of logs/ai_learning.json
    agent,       \* per worker: its InvictusAIAgent (learning_data, generation_count)
    pc,          \* per worker: where its request handler stands
    loc,         \* per worker: the request and the handler's local variables
    alarm,       \* per worker: the SIGALRM timer: "off", "armed" or "fired"
    nreq,        \* requests accepted so far
    faults,      \* commits the database has failed so far
    call,        \* a component called on its own: its name, input and result
    now,         \* the wall clock, in seconds
    security,    \* SECURITY_CONFIG: blocked_ips and rate_limits
    granted,     \* the times at which enforce_rados_protection let a request in
    validated,   \* how many validate_license calls have returned valid
    collab,      \* the CollaborationSystem: session_lock, the session, live_updates
    threads      \* per thread of the collaboration API: its call and locals

vars == << db, license, learnFile, agent, pc, loc, alarm, nreq, faults, call,
           now, security, granted, validated, collab, threads >>

\* The rate limiter's state and the log of the requests it let in.
Guard == << security, granted >>

\* The collaboration system and its threads.
Collab == << collab, threads >>

\* No component is being called on its own.
NoCall == [ fn |-> "none", done |-> TRUE ]

\* The one licence in the table, and what a client may send as license_key.
LicenseKey   == "CCS-PER-1"
RequestKeys  == { None, LicenseKey, "CCS-UNKNOWN" }

\* LICENSE_TYPES['personal']['max_usage']
PersonalMaxUsage == 100

\* ------------------------------------------------------- RADOS protection

\* SECURITY_CONFIG['max_requests_per_minute'] and the window, in seconds, that
\* check_rate_limit_internal looks back over.
MaxRequestsPerMinute == 60
MinuteWindow == 60

\* The client addresses requests come from.
ClientIp == "10.0.0.1"
Clients  == { ClientIp }

\* SECURITY_CONFIG when the module has been imported.
NewSecurity ==
    [ blocked_ips |-> {}, rate_limits |-> [ ip \in Clients |-> << >> ] ]

\* SECURITY_CONFIG when a client has been let in MaxRequestsPerMinute times
\* at second 0.
FullSecurity ==
    [ blocked_ips |-> {},
      rate_limits |-> [ ip \in Clients |->
                          [ i \in 1..MaxRequestsPerMinute |-> 0 ] ] ]

\* A limit check that lets one request more through.
RateLimitReached_above(requests) == Len(requests) > MaxRequestsPerMinute

\* `len(rate_limits[client_ip]) >= max_requests_per_minute`
RateLimitReached(requests) == Len(requests) >= MaxRequestsPerMinute

\* check_rate_limit_internal at time t: the requests of the last minute are
\* kept, and the current one is added unless the limit is reached.
check_rate_limit_internal(client_ip, sec, t) ==
    LET minute_window == t - MinuteWindow
        recent == SelectSeq(sec.rate_limits[client_ip],
                            LAMBDA req_time : req_time > minute_window)
    IN  IF RateLimitReached(recent)
          THEN [ ok  |-> FALSE,
                 sec |-> [sec EXCEPT !.rate_limits[client_ip] = recent] ]
          ELSE [ ok  |-> TRUE,
                 sec |-> [sec EXCEPT !.rate_limits[client_ip] =
                                         Append(recent, t)] ]

\* The enforce_rados_protection of the module's first half: a request over
\* the limit blocks the address and False is returned.
enforce_rados_protection_returning(client_ip, sec, t) ==
    IF client_ip \in sec.blocked_ips
      THEN [ outcome |-> "false", sec |-> sec ]
      ELSE LET r == check_rate_limit_internal(client_ip, sec, t) IN
           IF r.ok THEN [ outcome |-> "true", sec |-> r.sec ]
           ELSE [ outcome |-> "false",
                  sec |-> [r.sec EXCEPT !.blocked_ips = @ \cup {client_ip}] ]

\* enforce_rados_protection, the definition in force: abort(403) for a
\* blocked address, abort(429) over the rate limit, True otherwise.
enforce_rados_protection(client_ip, sec, t) ==
    IF client_ip \in sec.blocked_ips
      THEN [ outcome |-> "abort403", sec |-> sec ]
      ELSE LET r == check_rate_limit_internal(client_ip, sec, t) IN
           IF r.ok THEN [ outcome |-> "true", sec |-> r.sec ]
                   ELSE [ outcome |-> "abort429", sec |-> r.sec ]

\* ------------------------------------------------------- collaboration

\* The threads that serve the collaboration API.
Threads == { "t1", "t2" }

\* CollaborationSystem.__init__: no session, no live update, the lock free.
NewCollab ==
    [ session_lock |-> None,
      active       |-> FALSE,     \* the session id is in active_sessions
      participants |-> << >>,
      live_changes |-> << >>,
      live_updates |-> << >> ]

\* A thread that is serving no call.
IdleThread ==
    [ pc |-> "idle", op |-> None, user |-> None, version |-> 0,
      error |-> None ]

\* No licence row has been loaded.
NoLicense == [ status |-> Unset, usage_count |-> 0, max_usage |-> 0 ]

\* A worker's locals between requests.
IdleLoc ==
    [ route  |-> None,        \* "generate" or "licensed"
      theme  |-> <<>>,
      llm    |-> Unset,       \* this request's LLM: "nokey", "up", "down", "hung"
      tts    |-> Unset,       \* this request's TTS call: "up" or "down"
      enc    |-> Unset,       \* this request's mp3 export: "up" or "down"
      stfail |-> FALSE,       \* a commit of this request has raised
      lyrics |-> NoLyrics,
      voice  |-> Unset,
      music  |-> Unset,
      gen    |-> NoGeneration,  \* generate_complete_content's `generation`
      outer  |-> NoGeneration,  \* generate_with_license's `generation`
      audio  |-> Unset,
      video  |-> Unset,
      exc    |-> None,        \* the exception being propagated (its message)
      resp   |-> None,
      lic    |-> NoLicense ]  \* validate_license's `license_record`

Init ==
    /\ db = <<>>
    /\ license = [ status |-> "active", usage_count |-> 0,
                   max_usage |-> PersonalMaxUsage ]
    /\ learnFile = EmptyLearning
    /\ agent = [ w \in Workers |->
                   [ learning_data |-> EmptyLearning, generation_count |-> 0 ] ]
    /\ pc = [ w \in Workers |-> "idle" ]
    /\ loc = [ w \in Workers |-> IdleLoc ]
    /\ alarm = [ w \in Workers |-> "off" ]
    /\ nreq = 0
    /\ faults = 0
    /\ call = NoCall
    /\ now = 0
    /\ security \in { NewSecurity, FullSecurity }
    /\ granted = security.rate_limits[ClientIp]
    /\ validated = 0
    /\ collab = NewCollab
    /\ threads = [ t \in Threads |-> IdleThread ]

\* --------------------------------------------------------------- licences

\* BusinessLicenseManager.validate_license(key) on the licence row `lic`.
\* `expired` says whether utcnow() is past valid_until, `ok` whether the
\* commit succeeds.  Any exception is caught and reported as invalid; a
\* failed commit rolls the row back.
validate_license(key, lic, expired, ok) ==
    IF key # LicenseKey THEN [ valid |-> FALSE, lic |-> lic ]
    ELSE IF lic.status # "active" THEN [ valid |-> FALSE, lic |-> lic ]
    ELSE IF expired
      THEN [ valid |-> FALSE,
             lic   |-> IF ok THEN [lic EXCEPT !.status = "expired"] ELSE lic ]
    ELSE IF lic.max_usage # -1 /\ lic.usage_count >= lic.max_usage
      THEN [ valid |-> FALSE, lic |-> lic ]
    ELSE IF ok
      THEN [ valid |-> TRUE,
             lic   |-> [lic EXCEPT !.usage_count = lic.usage_count + 1] ]
    ELSE [ valid |-> FALSE, lic |-> lic ]

\* ---------------------------------------------------------- request entry

SetLoc(w, l) == loc' = [loc EXCEPT ![w] = l]
Goto(w, label) == pc' = [pc EXCEPT ![w] = label]
Bit(b) == IF b THEN 1 ELSE 0

\* Whether a commit succeeds is the database's choice; `failed` commits of
\* the same step have raised before it.
CommitOutcomes(failed) ==
    IF faults + failed < MaxStorageFaults THEN BOOLEAN ELSE {TRUE}

\* The themes a licensed request is drawn with; ThemeDefault is what a
\* request without the field gets.
LicensedThemes == { ThemeEmpty, ThemeWar, ThemeDefault }

\* The theme checks of routes.generate: `if not theme` and `len(theme) < 3`.
ThemeAccepted(theme) == theme # <<>> /\ Len(theme) >= 3

\* routes.generate, POST: enforce_rados_protection is called first, inside
\* the route's outer try block, so an abort() of it is caught there and the
\* form is rendered again with "An error occurred"; its return value is not
\* looked at.  Then the form's theme is stripped and validated, the 25 s
\* alarm is armed and generate_complete_content is entered.
Generate(w) ==
    /\ pc[w] = "idle"
    /\ nreq < MaxRequests
    /\ nreq' = nreq + 1
    /\ LET e == enforce_rados_protection(ClientIp, security, now) IN
       /\ security' = e.sec
       /\ granted' = IF e.outcome = "true" THEN Append(granted, now)
                                           ELSE granted
       /\ IF e.outcome \in {"abort403", "abort429"}
            THEN /\ SetLoc(w, [loc[w] EXCEPT !.route = "generate",
                                             !.resp = "error_page"])
                 /\ Goto(w, "done")
                 /\ UNCHANGED alarm
            ELSE \E raw \in Themes :
                 LET theme == Strip(raw) IN
                 IF ThemeAccepted(theme)
                   THEN /\ SetLoc(w, [loc[w] EXCEPT !.route = "generate",
                                                    !.theme = theme])
                        /\ Goto(w, "lyrics")
                        /\ alarm' = [alarm EXCEPT ![w] = "armed"]
                   ELSE /\ SetLoc(w, [loc[w] EXCEPT !.route = "generate",
                                                    !.theme = theme,
                                                    !.resp = "rejected"])
                        /\ Goto(w, "done")
                        /\ UNCHANGED alarm
    /\ UNCHANGED << db, license, learnFile, agent, faults, call,
                    now, validated, Collab >>

\* routes.generate_with_license up to the call of generate_complete_content:
\* the licence is validated, then the handler's own Generation record is
\* added with status 'processing' and committed.  The theme is used as sent.
GenerateWithLicense(w) ==
    /\ pc[w] = "idle"
    /\ nreq < MaxRequests
    /\ nreq' = nreq + 1
    /\ \E key \in RequestKeys, theme \in LicensedThemes,
          expired \in BOOLEAN, ok \in CommitOutcomes(0) :
       \E ok2 \in CommitOutcomes(Bit(~ok)) :
         LET v == validate_license(key, license, expired, ok)
             g == NewGeneration(theme, "heroic_male", "epic", "processing")
             l == [loc[w] EXCEPT !.route = "licensed", !.theme = theme]
             \* validate_license reached one of its two commits
             committing == /\ key = LicenseKey
                           /\ license.status = "active"
                           /\ \/ expired
                              \/ license.max_usage = -1
                              \/ license.usage_count < license.max_usage
             failed1 == committing /\ ~ok
         IN
         /\ validated' = validated + Bit(key # None /\ v.valid)
         /\ IF key = None
              THEN /\ SetLoc(w, [l EXCEPT !.resp = "400"])
                   /\ Goto(w, "done")
                   /\ UNCHANGED << db, license, faults >>
            ELSE IF ~v.valid
              THEN /\ SetLoc(w, [l EXCEPT !.resp = "403", !.stfail = failed1])
                   /\ Goto(w, "done")
                   /\ license' = v.lic
                   /\ faults' = faults + Bit(failed1)
                   /\ UNCHANGED db
            ELSE IF ok2
              THEN /\ db' = Committed(db, g)
                   /\ SetLoc(w, [l EXCEPT !.outer = [g EXCEPT !.id = CommitId(db, g)]])
                   /\ Goto(w, "lyrics")
                   /\ license' = v.lic
                   /\ UNCHANGED faults
              ELSE /\ SetLoc(w, [l EXCEPT !.resp = "500", !.stfail = TRUE])
                   /\ Goto(w, "done")
                   /\ license' = v.lic
                   /\ faults' = faults + 1
                   /\ UNCHANGED db
    /\ UNCHANGED << learnFile, agent, alarm, call, now, Guard, Collab >>

\* ------------------------------------------- generate_complete_content

\* generate_lyrics: without OPENAI_API_KEY the template is used at once;
\* with it, the LLM request is issued and the worker blocks in the call.
GenerateLyrics(w) ==
    /\ pc[w] = "lyrics"
    /\ \E mode \in {"nokey", "up", "down", "hung"} :
         IF mode = "nokey"
           THEN /\ SetLoc(w, [loc[w] EXCEPT
                     !.llm = mode,
                     !.lyrics = generate_template_lyrics(loc[w].theme)])
                /\ Goto(w, "style")
           ELSE /\ SetLoc(w, [loc[w] EXCEPT !.llm = mode])
                /\ Goto(w, "llm_call")
    /\ UNCHANGED << db, license, learnFile, agent, alarm, nreq, faults, call,
                    now, Guard, validated, Collab >>

\* generate_lyrics returning to its caller while the LLM call is still out:
\* style selection would start with no lyrics.
LLMReturn_unfinished(w) ==
    /\ pc[w] = "llm_call"
    /\ Goto(w, "style")
    /\ UNCHANGED << db, license, learnFile, agent, loc,
                    alarm, nreq, faults, call,
                    now, Guard, validated, Collab >>

\* The LLM call ends: with an answer, or with an exception that
\* generate_lyrics catches and replaces by the template.  No timeout is
\* passed to the client: a call that hangs does not end by itself.
LLMReturn(w) ==
    /\ pc[w] = "llm_call"
    /\ loc[w].llm \in {"up", "down"}
    /\ SetLoc(w, [loc[w] EXCEPT
          !.lyrics = IF loc[w].llm = "up"
                       THEN AiLyrics(loc[w].theme)
                       ELSE generate_template_lyrics(loc[w].theme)])
    /\ Goto(w, "style")
    /\ UNCHANGED << db, license, learnFile, agent, alarm, nreq, faults, call,
                    now, Guard, validated, Collab >>

\* analyze_lyrics_for_voice and analyze_lyrics_for_style.
SelectStyles(w) ==
    /\ pc[w] = "style"
    /\ SetLoc(w, [loc[w] EXCEPT
          !.voice = analyze_lyrics_for_voice(loc[w].theme),
          !.music = analyze_lyrics_for_style(loc[w].theme,
                       agent[w].learning_data.successful_combinations)])
    /\ Goto(w, "create")
    /\ UNCHANGED << db, license, learnFile, agent, alarm, nreq, faults, call,
                    now, Guard, validated, Collab >>

\* generation = Generation(..., status='generating'); add; commit.
CreateRecord(w) ==
    /\ pc[w] = "create"
    /\ \E ok \in CommitOutcomes(0) :
         LET g == NewGeneration(loc[w].theme, loc[w].voice, loc[w].music,
                                "generating")
         IN  /\ faults' = faults + Bit(~ok)
             /\ IF ok
                  THEN /\ db' = Committed(db, g)
                       /\ SetLoc(w, [loc[w] EXCEPT
                             !.gen = [g EXCEPT !.id = CommitId(db, g)]])
                       /\ Goto(w, "audio")
                  ELSE /\ SetLoc(w, [loc[w] EXCEPT !.gen = RolledBack(db, g),
                                                   !.stfail = TRUE,
                                                   !.exc = StorageMsg])
                       /\ Goto(w, "except")
                       /\ UNCHANGED db
    /\ UNCHANGED << license, learnFile, agent, alarm, nreq, call,
                    now, Guard, validated, Collab >>

\* synthesize_voice: the TTS track, or 30 s of silence when the TTS call
\* raises; it never raises itself.
synthesize_voice_raising(tts) == IF tts = "up" THEN "speech" ELSE "raised"

synthesize_voice(tts) == IF tts = "up" THEN "speech" ELSE "silence"

\* generate_professional_music_with_voice: the exported file's name, or None
\* when anything inside its try block raised.
generate_professional_music_with_voice(style, tts, enc, t) ==
    IF synthesize_voice(tts) = "raised" \/ enc = "down"
      THEN None
      ELSE AudioFileName(style, Timestamp(t))

Audio(w) ==
    /\ pc[w] = "audio"
    /\ \E tts \in {"up", "down"}, enc \in {"up", "down"} :
         SetLoc(w, [loc[w] EXCEPT
            !.tts = tts, !.enc = enc,
            !.audio = generate_professional_music_with_voice(loc[w].music,
                                                              tts, enc, now)])
    /\ Goto(w, "video")
    /\ UNCHANGED << db, license, learnFile, agent, alarm, nreq, faults, call,
                    now, Guard, validated, Collab >>

\* generate_synchronized_video only names a file; nothing in it fails by itself.
generate_synchronized_video(t) == VideoFileName(Timestamp(t))

Video(w) ==
    /\ pc[w] = "video"
    /\ SetLoc(w, [loc[w] EXCEPT !.video = generate_synchronized_video(now)])
    /\ Goto(w, "final")
    /\ UNCHANGED << db, license, learnFile, agent, alarm, nreq, faults, call,
                    now, Guard, validated, Collab >>

\* generation.audio_file = ...; status = 'completed'; commit.
FinalCommit(w) ==
    /\ pc[w] = "final"
    /\ \E ok \in CommitOutcomes(0) :
         LET g == [loc[w].gen EXCEPT !.audio_file = loc[w].audio,
                                     !.video_file = loc[w].video,
                                     !.status = "completed"]
         IN  /\ faults' = faults + Bit(~ok)
             /\ IF ok
                  THEN /\ db' = Committed(db, g)
                       /\ SetLoc(w, [loc[w] EXCEPT !.gen = g])
                       /\ Goto(w, "learn")
                  ELSE /\ SetLoc(w, [loc[w] EXCEPT !.gen = RolledBack(db, g),
                                                   !.stfail = TRUE,
                                                   !.exc = StorageMsg])
                       /\ Goto(w, "except")
                       /\ UNCHANGED db
    /\ UNCHANGED << license, learnFile, agent, alarm, nreq, call,
                    now, Guard, validated, Collab >>

\* learn_from_generation(theme, music_style, voice_style, 5), which ends by
\* writing the agent's whole learning_data over logs/ai_learning.json.
Learn(w) ==
    /\ pc[w] = "learn"
    /\ LET n    == agent[w].generation_count + 1
           data == Learned(agent[w].learning_data, n, loc[w].theme,
                           loc[w].music, loc[w].voice, 5)
       IN  /\ agent' = [agent EXCEPT ![w] = [ learning_data |-> data,
                                              generation_count |-> n ]]
           /\ learnFile' = data
    /\ Goto(w, "return")
    /\ UNCHANGED << db, license, loc, alarm, nreq, faults, call,
                    now, Guard, validated, Collab >>

\* return {...}: the result reaches the route.
ReturnResult(w) ==
    /\ pc[w] = "return"
    /\ Goto(w, "route_ok")
    /\ UNCHANGED << db, license, learnFile, agent, loc,
                    alarm, nreq, faults, call,
                    now, Guard, validated, Collab >>

\* The handler of generate_complete_content: when `generation` is bound its
\* status is set to 'failed' and committed, and the exception is raised
\* again; no error message is stored.  A Generation whose insert was rolled
\* back is no longer in the session, so the commit writes nothing for it.
\* When this commit raises, its exception is the one that leaves the function.
Except(w) ==
    /\ pc[w] = "except"
    /\ \E ok \in CommitOutcomes(0) :
         LET g      == [loc[w].gen EXCEPT !.status = "failed"]
             writes == loc[w].gen.status # Unset /\ loc[w].gen.id # 0
         IN  /\ faults' = faults + Bit(writes /\ ~ok)
             /\ IF loc[w].gen.status = Unset
                  THEN UNCHANGED << db, loc >>
                ELSE IF ~writes
                  THEN /\ SetLoc(w, [loc[w] EXCEPT !.gen = g])
                       /\ UNCHANGED db
                ELSE IF ok
                  THEN /\ db' = Committed(db, g)
                       /\ SetLoc(w, [loc[w] EXCEPT !.gen = g])
                  ELSE /\ SetLoc(w, [loc[w] EXCEPT !.gen = RolledBack(db, g),
                                                   !.stfail = TRUE,
                                                   !.exc = StorageMsg])
                       /\ UNCHANGED db
    /\ Goto(w, "route_exc")
    /\ UNCHANGED << license, learnFile, agent, alarm, nreq, call,
                    now, Guard, validated, Collab >>

\* ------------------------------------------------------------- the alarm

\* What a TimeoutError raised by the SIGALRM handler does, by where the
\* worker stands.  "propagate": it is raised outside every inner try block
\* and reaches generate_complete_content's handler.  "caught": an inner
\* `except Exception` of the phase catches it and the phase returns its
\* fallback.  "absorbed": it is raised inside log_security_event or another
\* nested try block whose handler leaves the phase's result as it is.
\* "escape": it is raised inside generate_complete_content's own handler, or
\* in the route after the call has returned and before signal.alarm(0).
AlarmOutcomes(label) ==
    CASE label = "lyrics"   -> {"propagate"}
      [] label = "llm_call" -> {"caught"}
      [] label = "style"    -> {"propagate"}
      [] label = "create"   -> {"propagate"}
      [] label = "audio"    -> {"propagate", "caught", "absorbed"}
      [] label = "video"    -> {"propagate", "caught", "absorbed"}
      [] label = "final"    -> {"propagate"}
      [] label = "learn"    -> {"propagate", "absorbed"}
      [] label = "return"   -> {"propagate"}
      [] label = "except"   -> {"escape"}
      [] label = "route_ok" -> {"escape"}
      [] OTHER              -> {}

Alarm(w) ==
    /\ alarm[w] = "armed"
    /\ alarm' = [alarm EXCEPT ![w] = "fired"]
    /\ \E how \in AlarmOutcomes(pc[w]) :
         CASE how = "propagate" ->
                /\ SetLoc(w, [loc[w] EXCEPT !.exc = TimeoutMsg])
                /\ Goto(w, "except")
           [] how = "absorbed" ->
                /\ UNCHANGED << loc, pc >>
           [] how = "caught" /\ pc[w] = "llm_call" ->
                /\ SetLoc(w, [loc[w] EXCEPT
                      !.lyrics = generate_template_lyrics(loc[w].theme)])
                /\ Goto(w, "style")
           [] how = "caught" /\ pc[w] = "audio" ->
                /\ SetLoc(w, [loc[w] EXCEPT !.audio = None])
                /\ Goto(w, "video")
           [] how = "caught" /\ pc[w] = "video" ->
                /\ SetLoc(w, [loc[w] EXCEPT !.video = None])
                /\ Goto(w, "final")
           [] how = "escape" /\ pc[w] = "except" ->
                /\ SetLoc(w, [loc[w] EXCEPT !.exc = TimeoutMsg])
                /\ Goto(w, "route_exc")
           [] how = "escape" /\ pc[w] = "route_ok" ->
                /\ SetLoc(w, [loc[w] EXCEPT !.exc = TimeoutMsg,
                                            !.resp = "timed_out"])
                /\ Goto(w, "done")
    /\ UNCHANGED << db, license, learnFile, agent, nreq, faults, call,
                    now, Guard, validated, Collab >>

\* ------------------------------------------------------ back in the route

\* The call returned a result.
\* generate: signal.alarm(0), flash success, redirect to the results page.
\* generate_with_license: the handler's own record is set to 'completed'
\* with the result's files and committed; when that commit raises, the
\* handler marks its record 'failed' with the message, commits again and
\* answers 500.
RouteOk(w) ==
    /\ pc[w] = "route_ok"
    /\ IF loc[w].route = "generate"
         THEN /\ SetLoc(w, [loc[w] EXCEPT !.resp = "redirect"])
              /\ UNCHANGED << db, faults >>
         ELSE \E ok \in CommitOutcomes(0) :
              \E ok2 \in CommitOutcomes(Bit(~ok)) :
                LET g == [loc[w].outer EXCEPT !.status = "completed",
                                              !.audio_file = loc[w].audio,
                                              !.video_file = loc[w].video]
                    f == [RolledBack(db, g) EXCEPT !.status = "failed",
                                                   !.error_message = StorageMsg]
                IN  IF ok
                      THEN /\ db' = Committed(db, g)
                           /\ SetLoc(w, [loc[w] EXCEPT !.outer = g,
                                                       !.resp = "200"])
                           /\ UNCHANGED faults
                    ELSE IF ok2
                      THEN /\ db' = Committed(db, f)
                           /\ SetLoc(w, [loc[w] EXCEPT !.outer = f,
                                                       !.stfail = TRUE,
                                                       !.exc = StorageMsg,
                                                       !.resp = "500"])
                           /\ faults' = faults + 1
                      ELSE /\ UNCHANGED db
                           /\ SetLoc(w, [loc[w] EXCEPT
                                 !.outer = RolledBack(db, f),
                                 !.stfail = TRUE,
                                 !.exc = StorageMsg,
                                 !.resp = "500"])
                           /\ faults' = faults + 2
    /\ Goto(w, "done")
    /\ alarm' = [alarm EXCEPT ![w] = "off"]
    /\ UNCHANGED << license, learnFile, agent, nreq, call,
                    now, Guard, validated, Collab >>

\* The call raised.
\* generate: signal.alarm(0); a TimeoutError gives the "timed out" page, any
\* other exception the "failed" page.
\* generate_with_license: the handler's own record is set to 'failed' with
\* str(exception) and committed; the answer is 500.
RouteExc(w) ==
    /\ pc[w] = "route_exc"
    /\ IF loc[w].route = "generate"
         THEN /\ SetLoc(w, [loc[w] EXCEPT
                    !.resp = IF loc[w].exc = TimeoutMsg THEN "timed_out"
                                                       ELSE "failed"])
              /\ UNCHANGED << db, faults >>
         ELSE \E ok \in CommitOutcomes(0) :
                LET f == [loc[w].outer EXCEPT !.status = "failed",
                                              !.error_message = loc[w].exc]
                IN  /\ faults' = faults + Bit(~ok)
                    /\ IF ok
                         THEN /\ db' = Committed(db, f)
                              /\ SetLoc(w, [loc[w] EXCEPT !.outer = f,
                                                          !.resp = "500"])
                         ELSE /\ UNCHANGED db
                              /\ SetLoc(w, [loc[w] EXCEPT
                                    !.outer = RolledBack(db, f),
                                    !.stfail = TRUE,
                                    !.exc = StorageMsg,
                                    !.resp = "500"])
    /\ Goto(w, "done")
    /\ alarm' = [alarm EXCEPT ![w] = "off"]
    /\ UNCHANGED << license, learnFile, agent, nreq, call,
                    now, Guard, validated, Collab >>

\* The response is sent; the worker waits for its next request.
Finish(w) ==
    /\ pc[w] = "done"
    /\ Goto(w, "idle")
    /\ SetLoc(w, IdleLoc)
    /\ UNCHANGED << db, license, learnFile, agent, alarm, nreq, faults, call,
                    now, Guard, validated, Collab >>

\* ------------------------------------------------------------ the system

\* One step of worker process w.
Step(w) ==
    \/ Generate(w)
    \/ GenerateWithLicense(w)
    \/ GenerateLyrics(w)
    \/ LLMReturn(w)
    \/ SelectStyles(w)
    \/ CreateRecord(w)
    \/ Audio(w)
    \/ Video(w)
    \/ FinalCommit(w)
    \/ Learn(w)
    \/ ReturnResult(w)
    \/ Except(w)
    \/ Alarm(w)
    \/ RouteOk(w)
    \/ RouteExc(w)
    \/ Finish(w)

\* A deployment with one worker process, which serves one request at a time.
Next == Step("w1")

Spec == Init /\ [][Next]_vars

\* A deployment with two worker processes over the same database and the
\* same logs/ai_learning.json, each holding its own InvictusAIAgent; the
\* web form is the entry point and the database does not fail.
InitConc ==
    /\ db = <<>>
    /\ license = [ status |-> "active", usage_count |-> 0,
                   max_usage |-> PersonalMaxUsage ]
    /\ learnFile = EmptyLearning
    /\ agent = [ w \in Workers |->
                   [ learning_data |-> EmptyLearning, generation_count |-> 0 ] ]
    /\ pc = [ w \in Workers |-> "idle" ]
    /\ loc = [ w \in Workers |-> IdleLoc ]
    /\ alarm = [ w \in Workers |-> "off" ]
    /\ nreq = 0
    /\ faults = MaxStorageFaults
    /\ call = NoCall
    /\ now = 0
    /\ security = NewSecurity
    /\ granted = << >>
    /\ validated = 0
    /\ collab = NewCollab
    /\ threads = [ t \in Threads |-> IdleThread ]

StepConc(w) ==
    \/ Generate(w)
    \/ GenerateLyrics(w)
    \/ LLMReturn(w)
    \/ SelectStyles(w)
    \/ CreateRecord(w)
    \/ Audio(w)
    \/ Video(w)
    \/ FinalCommit(w)
    \/ Learn(w)
    \/ ReturnResult(w)
    \/ Except(w)
    \/ Alarm(w)
    \/ RouteOk(w)
    \/ RouteExc(w)
    \/ Finish(w)

NextConc == \E w \in Workers : StepConc(w)

SpecConc == InitConc /\ [][NextConc]_vars

\* ------------------------------------------------- the agent's learning

\* The themes of the requests an agent serves one after the other.
LearnWorkload(n) == IF n % 2 = 1 THEN ThemeWar ELSE ThemeDefault

\* A generation of worker w that succeeds, as far as the agent's learning
\* goes: the styles are selected for the theme (generate_complete_content,
\* lines 94-95) and learn_from_generation(theme, music_style, voice_style, 5)
\* is called after the final commit (line 126).
SuccessfulGeneration(w) ==
    /\ pc[w] = "idle"
    /\ agent[w].generation_count < MaxLearned
    /\ LET n     == agent[w].generation_count + 1
           theme == LearnWorkload(n)
           voice == analyze_lyrics_for_voice(theme)
           music == analyze_lyrics_for_style(theme,
                       agent[w].learning_data.successful_combinations)
           data  == Learned(agent[w].learning_data, n, theme, music, voice, 5)
       IN  /\ agent' = [agent EXCEPT ![w] = [ learning_data |-> data,
                                              generation_count |-> n ]]
           /\ learnFile' = data
    /\ UNCHANGED << db, license, pc, loc, alarm, nreq, faults, call,
                    now, Guard, validated, Collab >>

NextLearn == SuccessfulGeneration("w1")

\* One agent serving successful generations one after the other.
SpecLearn == Init /\ [][NextLearn]_vars

\* ------------------------------------------- components called on their own

\* The other variables while a component is called on its own.
Quiet ==
    /\ db = <<>>
    /\ license = [ status |-> "active", usage_count |-> 0,
                   max_usage |-> PersonalMaxUsage ]
    /\ learnFile = EmptyLearning
    /\ agent = [ w \in Workers |->
                   [ learning_data |-> EmptyLearning, generation_count |-> 0 ] ]
    /\ pc = [ w \in Workers |-> "idle" ]
    /\ loc = [ w \in Workers |-> IdleLoc ]
    /\ alarm = [ w \in Workers |-> "off" ]
    /\ nreq = 0
    /\ faults = 0
    /\ now = 0
    /\ security = NewSecurity
    /\ granted = << >>
    /\ validated = 0
    /\ collab = NewCollab
    /\ threads = [ t \in Threads |-> IdleThread ]

Rest == << db, license, learnFile, agent, pc, loc, alarm, nreq, faults,
           now, Guard, validated, Collab >>

\* Longest list of recorded combinations a style selection is called with.
MaxCombos == 2

SeqsUpTo(S, n) == UNION { [1..k -> S] : k \in 0..n }

ThemeDark    == KwDark
ThemeDarkWar == KwDark \o <<" ">> \o KwWar
ThemePop     == KwPop

\* The combination learn_from_generation records for a generation with this
\* theme served by a fresh agent.
LearnedEntry(theme) ==
    [ theme       |-> theme,
      style       |-> analyze_lyrics_for_style(theme, <<>>),
      voice_style |-> analyze_lyrics_for_voice(theme),
      rating      |-> 5 ]

StyleCalls ==
    { [ fn |-> "analyze_lyrics_for_style", done |-> FALSE,
        theme |-> t, combos |-> c ] :
        t \in { ThemeWar, ThemeDark, ThemeDarkWar, ThemePop },
        c \in SeqsUpTo({ LearnedEntry(ThemeWar), LearnedEntry(ThemeDark) },
                       MaxCombos) }

ApplyStyle ==
    /\ call.fn = "analyze_lyrics_for_style" /\ ~call.done
    /\ call' = [ fn |-> call.fn, done |-> TRUE,
                 theme |-> call.theme, combos |-> call.combos,
                 out |-> analyze_lyrics_for_style(call.theme, call.combos) ]
    /\ UNCHANGED Rest

\* analyze_lyrics_for_voice(lyrics_text, theme): lyrics_text is accepted and
\* not read.
VoiceCalls ==
    { [ fn |-> "analyze_lyrics_for_voice", done |-> FALSE,
        lyrics_text |-> l, theme |-> t ] :
        l \in { <<>>, KwLove, KwWar, KwSecret \o <<" ">> \o KwDivine },
        t \in { ThemeWar, ThemePop, KwLove, KwSecret, KwEternal,
                KwHeart \o <<" ">> \o KwSacred,
                KwMystery \o <<" ">> \o KwChampion } }

ApplyVoice ==
    /\ call.fn = "analyze_lyrics_for_voice" /\ ~call.done
    /\ call' = [ fn |-> call.fn, done |-> TRUE,
                 lyrics_text |-> call.lyrics_text, theme |-> call.theme,
                 out |-> analyze_lyrics_for_voice(call.theme) ]
    /\ UNCHANGED Rest

\* The word lists of VideoGenerator.analyze_scene_for_lyrics.
KwFight   == << "f", "i", "g", "h", "t" >>
KwSword   == << "s", "w", "o", "r", "d" >>
KwVictory == << "v", "i", "c", "t", "o", "r", "y" >>
KwHeaven  == << "h", "e", "a", "v", "e", "n" >>
KwGlory   == << "g", "l", "o", "r", "y" >>
KwSoul    == << "s", "o", "u", "l" >>
KwEmotion == << "e", "m", "o", "t", "i", "o", "n" >>
KwRise    == << "r", "i", "s", "e" >>
KwAscend  == << "a", "s", "c", "e", "n", "d" >>
KwJourney == << "j", "o", "u", "r", "n", "e", "y" >>
KwPath    == << "p", "a", "t", "h" >>
KwForward == << "f", "o", "r", "w", "a", "r", "d" >>

BattleWords    == { KwBattle, KwFight, KwWar, KwSword, KwVictory }
SacredWords    == { KwDivine, KwSacred, KwEternal, KwHeaven, KwGlory }
EmotionalWords == { KwHeart, KwLove, KwSoul, KwEmotion }
JourneyWords   == { KwRise, KwAscend, KwJourney, KwPath, KwForward }

\* any(word in lyrics_lower for word in [...])
AnyIn(words, t) == \E k \in words : Contains(k, t)

\* The chain with the sacred check moved in front of the battle check.
analyze_scene_sacred_first(lyrics, verse_type) ==
    LET t == Lower(lyrics) IN
    IF AnyIn(SacredWords, t) THEN "sacred_temple"
    ELSE IF AnyIn(BattleWords, t) THEN "epic_battle"
    ELSE IF AnyIn(EmotionalWords, t) THEN "emotional_closeup"
    ELSE IF AnyIn(JourneyWords, t) THEN "cinematic_journey"
    ELSE IF verse_type = "chorus" THEN "grand_vista"
    ELSE "heroic_scene"

analyze_scene_for_lyrics(lyrics, verse_type) ==
    LET t == Lower(lyrics) IN
    IF AnyIn(BattleWords, t) THEN "epic_battle"
    ELSE IF AnyIn(SacredWords, t) THEN "sacred_temple"
    ELSE IF AnyIn(EmotionalWords, t) THEN "emotional_closeup"
    ELSE IF AnyIn(JourneyWords, t) THEN "cinematic_journey"
    ELSE IF verse_type = "chorus" THEN "grand_vista"
    ELSE "heroic_scene"

SceneTexts ==
    { <<>>, KwPop, KwDivine, KwLove, KwRise, ThemeWar,
      KwBattle \o <<" ">> \o KwDivine,
      KwDivine \o <<" ">> \o KwBattle,
      <<"E">> \o Tail(KwEternal) \o <<" ">> \o ThemeWar,
      KwGlory \o KwSword,
      KwHeaven \o <<" ">> \o KwLove \o <<" ">> \o KwFight,
      KwLove \o <<" ">> \o KwDivine,
      KwPath \o <<" ">> \o KwSoul }

SceneCalls ==
    { [ fn |-> "analyze_scene_for_lyrics", done |-> FALSE,
        lyrics |-> l, verse_type |-> v ] :
        l \in SceneTexts, v \in { "verse", "chorus", "bridge" } }

ApplyScene ==
    /\ call.fn = "analyze_scene_for_lyrics" /\ ~call.done
    /\ call' = [ fn |-> call.fn, done |-> TRUE,
                 lyrics |-> call.lyrics, verse_type |-> call.verse_type,
                 out |-> analyze_scene_for_lyrics(call.lyrics,
                                                  call.verse_type) ]
    /\ UNCHANGED Rest

\* An audio track is the sequence of its milliseconds; each millisecond is
\* the set of the sources heard in it ({} is silence).

\* Longest track, in milliseconds, a mixer is called with.
MaxTrackMs == 3

Tone(source, ms) == [ i \in 1..ms |-> {source} ]

\* AudioSegment.silent(duration=ms)
Silent(ms) == [ i \in 1..ms |-> {} ]

\* base.overlay(over): over is laid on base from position 0 and cut at the
\* end of base; the result is as long as base.
Overlay(base, over) ==
    [ i \in 1..Len(base) |->
        base[i] \cup (IF i <= Len(over) THEN over[i] ELSE {}) ]

MaxOf(a, b) == IF a >= b THEN a ELSE b

\* InvictusAIAgent.mix_audio: both tracks are padded with silence to the
\* longer one's length, then the music is laid on the voice.
mix_audio(voice_audio, music_audio) ==
    LET max_length == MaxOf(Len(voice_audio), Len(music_audio))
        voice == IF Len(voice_audio) < max_length
                   THEN voice_audio \o Silent(max_length - Len(voice_audio))
                   ELSE voice_audio
        music == IF Len(music_audio) < max_length
                   THEN music_audio \o Silent(max_length - Len(music_audio))
                   ELSE music_audio
    IN  Overlay(voice, music)

\* MusicGenerator.create_professional_mix: the voice, with a gain that
\* depends on the style, is laid on the music track.
create_professional_mix(music_track, voice_track, style) ==
    Overlay(music_track, voice_track)

MixCalls ==
    { [ fn |-> f, done |-> FALSE,
        voice |-> Tone("voice", v), music |-> Tone("music", m) ] :
        f \in { "mix_audio", "create_professional_mix" },
        v \in 0..MaxTrackMs, m \in 0..MaxTrackMs }

ApplyMixAudio ==
    /\ call.fn = "mix_audio" /\ ~call.done
    /\ call' = [ fn |-> call.fn, done |-> TRUE,
                 voice |-> call.voice, music |-> call.music,
                 out |-> mix_audio(call.voice, call.music) ]
    /\ UNCHANGED Rest

ApplyProfessionalMix ==
    /\ call.fn = "create_professional_mix" /\ ~call.done
    /\ \E style \in { "epic", "emotional", "dark", "pop" } :
         call' = [ fn |-> call.fn, done |-> TRUE,
                   voice |-> call.voice, music |-> call.music,
                   out |-> create_professional_mix(call.music, call.voice,
                                                   style) ]
    /\ UNCHANGED Rest

MinOf(a, b) == IF a <= b THEN a ELSE b

\* AudioSegment.silent(duration=30000), the fallback of synthesize_voice.
FallbackSilenceMs == 30000

\* The length in ms of what InvictusAIAgent.synthesize_voice returns for a
\* text of text_len characters: the TTS track's (speech_ms, the service's
\* choice), or the fallback silence's when the TTS call raised.
synthesize_voice_ms(text_len, tts, speech_ms) ==
    IF tts = "up" THEN speech_ms ELSE FallbackSilenceMs

\* The length in ms of MusicGenerator.create_fallback_voice's tone:
\* 100 ms per character, between 3 and 30 seconds.
create_fallback_voice(text_len) ==
    MaxOf(3000, MinOf(text_len * 100, 30000))

\* Text lengths, in characters, around both ends of the clamp.
TextLens == { 0, 1, 29, 30, 31, 110, 299, 300, 301 }

FallbackCalls ==
    { [ fn |-> "synthesize_voice", done |-> FALSE,
        text_len |-> n, tts |-> t ] :
        n \in TextLens, t \in { "up", "down" } }
    \cup
    { [ fn |-> "create_fallback_voice", done |-> FALSE,
        text_len |-> n, tts |-> "down" ] : n \in TextLens }

ApplySynthesizeVoice ==
    /\ call.fn = "synthesize_voice" /\ ~call.done
    /\ \E speech_ms \in { 2000, 40000 } :
         call' = [ fn |-> call.fn, done |-> TRUE,
                   text_len |-> call.text_len, tts |-> call.tts,
                   out |-> synthesize_voice_ms(call.text_len, call.tts,
                                               speech_ms) ]
    /\ UNCHANGED Rest

ApplyFallbackVoice ==
    /\ call.fn = "create_fallback_voice" /\ ~call.done
    /\ call' = [ fn |-> call.fn, done |-> TRUE,
                 text_len |-> call.text_len, tts |-> call.tts,
                 out |-> create_fallback_voice(call.text_len) ]
    /\ UNCHANGED Rest

\* sample_rate of generate_background_music, and the largest int16 sample.
SampleRate == 44100
Int16Max   == 32767

\* The normalization ceiling 0.7, in thousandths of full scale.
PeakCeiling == 700

\* The largest |sample| of the summed sines, in thousandths, by style:
\* the sum of the components' amplitudes bounds it.
RawPeakBound(style) ==
    CASE style = "epic"      -> 600
      [] style = "dark"      -> 700
      [] style = "emotional" -> 500
      [] OTHER               -> 500

\* len(segment) of pydub: round(1000 * frame_count / frame_rate).
LenMs(track) ==
    (1000 * track.frames + (track.frame_rate \div 2)) \div track.frame_rate

\* The builder with the factor 0.7 left out of the normalization.
generate_background_music_unscaled(style, duration_ms, raw_peak, short) ==
    LET exact == (SampleRate * duration_ms) \div 1000
        n     == IF short /\ exact > 0 THEN exact - 1 ELSE exact
    IN  IF n = 0
          THEN [ frames |-> 0, frame_rate |-> 11025, peak |-> 0 ]
          ELSE [ frames |-> n, frame_rate |-> SampleRate,
                 peak |-> ((((raw_peak * 1000) \div raw_peak)) * Int16Max)
                             \div 1000 ]

\* generate_background_music(style, duration_ms).  The number of samples is
\* int(sample_rate * (duration_ms / 1000)) in floating point, which is one
\* less than the exact product when the division rounds down (short).  The
\* summed sines, of peak raw_peak, are divided by their peak, multiplied by
\* 0.7 and by 32767, and truncated to int16.  With no sample np.max raises
\* and the handler returns AudioSegment.silent(duration=duration_ms).
generate_background_music(style, duration_ms, raw_peak, short) ==
    LET exact == (SampleRate * duration_ms) \div 1000
        n     == IF short /\ exact > 0 THEN exact - 1 ELSE exact
    IN  IF n = 0
          THEN [ frames |-> 0, frame_rate |-> 11025, peak |-> 0 ]
          ELSE [ frames |-> n, frame_rate |-> SampleRate,
                 peak |->
                   LET unit   == (raw_peak * 1000) \div raw_peak
                       scaled == (unit * PeakCeiling) \div 1000
                   IN  (scaled * Int16Max) \div 1000 ]

BackgroundCalls ==
    { [ fn |-> "generate_background_music", done |-> FALSE,
        style |-> st, duration_ms |-> ms ] :
        st \in { "epic", "dark", "emotional", "gladiator", "pop" },
        ms \in { 0, 1, 2, 10, 350, 3000, 30000 } }

ApplyBackground ==
    /\ call.fn = "generate_background_music" /\ ~call.done
    /\ \E raw_peak \in { 1, RawPeakBound(call.style) },
          short \in { FALSE, (SampleRate * call.duration_ms) % 1000 = 0 } :
         call' = [ fn |-> call.fn, done |-> TRUE,
                   style |-> call.style, duration_ms |-> call.duration_ms,
                   out |-> generate_background_music(call.style,
                              call.duration_ms, raw_peak, short) ]
    /\ UNCHANGED Rest

\* ------------------------------------------- the stored lyric document

\* Largest numeric timing an LLM answer is drawn with.
MaxTimingValue == 2

\* Python values a lyric document is built from.  A str is the sequence of
\* its pieces; a dict keeps its keys in insertion order.
PyNone            == [ py |-> "none" ]
PyStr(pieces)     == [ py |-> "str", s |-> pieces ]
PyInt(n)          == [ py |-> "int", n |-> n ]
PyList(items)     == [ py |-> "list", items |-> items ]
PyTuple(items)    == [ py |-> "tuple", items |-> items ]
PyDict(keys, vals) == [ py |-> "dict", keys |-> keys, vals |-> vals ]

\* bool(obj): None, 0 and the empty str, list, tuple and dict are false.
PyTruthy(obj) ==
    CASE obj.py = "none" -> FALSE
      [] obj.py = "int"  -> obj.n # 0
      [] obj.py = "str"  -> Len(obj.s) > 0
      [] obj.py = "dict" -> Len(obj.keys) > 0
      [] OTHER           -> Len(obj.items) > 0

\* obj.get(key, default) on a dict.
PyGet(obj, key, default) ==
    IF \E i \in 1..Len(obj.keys) : obj.keys[i] = key
    THEN obj.vals[CHOOSE i \in 1..Len(obj.keys) : obj.keys[i] = key]
    ELSE default

\* json.dumps: the JSON text, as the value it spells.  A list and a tuple
\* are both written as an array.
RECURSIVE dumps(_)
dumps(obj) ==
    CASE obj.py = "none" -> [ js |-> "null" ]
      [] obj.py = "str"  -> [ js |-> "string", chars |-> obj.s ]
      [] obj.py = "int"  -> [ js |-> "number", digits |-> ToString(obj.n) ]
      [] obj.py \in {"list", "tuple"} ->
            [ js |-> "array",
              items |-> [ i \in 1..Len(obj.items) |-> dumps(obj.items[i]) ] ]
      [] obj.py = "dict" ->
            [ js |-> "object", names |-> obj.keys,
              members |-> [ i \in 1..Len(obj.vals) |-> dumps(obj.vals[i]) ] ]

\* The int a run of decimal digits spells.
ParseInt(digits) ==
    CHOOSE n \in 0..MaxTimingValue : ToString(n) = digits

\* json.loads: every array is read back as a list.
RECURSIVE loads(_)
loads(text) ==
    CASE text.js = "null"   -> PyNone
      [] text.js = "string" -> PyStr(text.chars)
      [] text.js = "number" -> PyInt(ParseInt(text.digits))
      [] text.js = "array"  ->
            PyList([ i \in 1..Len(text.items) |-> loads(text.items[i]) ])
      [] text.js = "object" ->
            PyDict(text.names,
                   [ i \in 1..Len(text.members) |-> loads(text.members[i]) ])

\* A nullable text column: NULL, or the text it holds.
Null       == [ null |-> TRUE ]
Text(text) == [ null |-> FALSE, text |-> text ]

\* The two lyric columns of a Generation row before anything is stored.
NoRow == [ lyrics_data |-> Null, lyrics_json |-> Null ]

\* f"{i*30}:{(i+1)*30}", and a timing the LLM wrote the same way.
TimingText(timing) == << ToString(timing[1]), ":", ToString(timing[2]) >>

\* The dict generate_lyrics returns for a lyric document of the model.
LyricDict(title, doc) ==
    PyDict(<< "title", "theme", "full_text", "verses" >>,
           << PyStr(title), PyStr(doc.theme), PyStr(doc.full_text),
              PyList([ i \in 1..Len(doc.verses) |->
                  PyDict(<< "type", "lyrics", "timing" >>,
                         << PyStr(<< doc.verses[i].type >>),
                            PyStr(<< doc.verses[i].lyrics >>),
                            PyStr(TimingText(doc.verses[i].timing)) >>) ]) >>)

\* title = f"Invictus {theme}" when the request gave none.
DefaultTitle(theme) == << "Invictus " >> \o theme

\* Generation(..., lyrics_data=json.dumps(lyrics_data), ...)
Generation_lyrics(lyrics_data) ==
    [ lyrics_data |-> Text(dumps(lyrics_data)), lyrics_json |-> Null ]

\* Generation.set_lyrics_data
set_lyrics_data(row, data) ==
    [ row EXCEPT !.lyrics_json =
        IF PyTruthy(data) THEN Text(dumps(data)) ELSE Null ]

\* A reader of the column the agent does not write.
get_lyrics_data_other_column(row) ==
    IF ~row.lyrics_json.null THEN loads(row.lyrics_json.text)
    ELSE PyDict(<< >>, << >>)

\* Generation.get_lyrics_data on the lyrics_data column.  A JSON text has at
\* least one character, so a column that is not NULL is true.
get_lyrics_data(row) ==
    IF ~row.lyrics_data.null THEN loads(row.lyrics_data.text)
    ELSE PyDict(<< >>, << >>)

\* Generation.get_lyrics_data on the lyrics_json column.
get_lyrics_data_json(row) ==
    IF ~row.lyrics_json.null THEN loads(row.lyrics_json.text)
    ELSE PyDict(<< >>, << >>)

\* The verses of a lyric document: data.get('verses', []).
VersesOf(data) == PyGet(data, "verses", PyList(<< >>)).items

\* Lyric documents that are stored: the three templates, an LLM answer, an
\* LLM answer with numeric timings in a document without a title, the
\* service's literal fallback, a document without verses, an empty dict,
\* and a document whose verses are a tuple.
LyricDocs ==
    { LyricDict(DefaultTitle(t), generate_template_lyrics(t)) :
          t \in { ThemeWar, KwSacred, ThemeDefault } }
    \cup { LyricDict(DefaultTitle(ThemeWar), AiLyrics(ThemeWar)) }
    \cup { PyDict(<< "verses" >>,
                  << PyList(<< PyDict(<< "type", "timing" >>,
                                      << PyStr(<< ty >>), PyInt(n) >>) >>) >>) :
              ty \in { "verse", "chorus", "bridge" }, n \in 0..MaxTimingValue }
    \cup { PyDict(<< "title", "theme", "full_text", "verses" >>,
                  << PyStr(<< "Invictus Aeternum" >>), PyStr(ThemeWar),
                     PyStr(<< "Invictus Aeternum, we rise again" >>),
                     PyList(<< PyDict(<< "type", "lyrics", "timing" >>,
                                  << PyStr(<< "verse" >>),
                                     PyStr(<< "Invictus Aeternum" >>),
                                     PyStr(<< "0:00-0:30" >>) >>),
                               PyDict(<< "type", "lyrics", "timing" >>,
                                  << PyStr(<< "chorus" >>),
                                     PyStr(<< "Our hearts ablaze" >>),
                                     PyStr(<< "0:30-1:00" >>) >>) >>) >>) }
    \cup { PyDict(<< "title" >>, << PyStr(<< "Untitled" >>) >>),
           PyDict(<< >>, << >>),
           PyDict(<< "verses" >>,
                  << PyTuple(<< PyDict(<< "type", "timing" >>,
                                  << PyStr(<< "verse" >>),
                                     PyStr(<< "0:30" >>) >>) >>) >>) }

LyricsCalls ==
    { [ fn |-> "get_lyrics_data", done |-> FALSE, via |-> via,
        data |-> data, stored |-> FALSE, row |-> NoRow ] :
          via \in { "Generation", "set_lyrics_data" }, data \in LyricDocs }

\* The document is written to the row: by the constructor call of
\* generate_complete_content, or by set_lyrics_data.
StoreLyrics ==
    /\ call.fn = "get_lyrics_data" /\ ~call.done /\ ~call.stored
    /\ call' = [ call EXCEPT
                   !.stored = TRUE,
                   !.row = IF call.via = "Generation"
                           THEN Generation_lyrics(call.data)
                           ELSE set_lyrics_data(call.row, call.data) ]
    /\ UNCHANGED Rest

\* The stored document is read back with the accessor of the same class.
ReadLyrics ==
    /\ call.fn = "get_lyrics_data" /\ ~call.done /\ call.stored
    /\ call' = [ fn |-> call.fn, done |-> TRUE, via |-> call.via,
                 data |-> call.data, stored |-> TRUE, row |-> call.row,
                 out |-> IF call.via = "Generation"
                         THEN get_lyrics_data(call.row)
                         ELSE get_lyrics_data_json(call.row) ]
    /\ UNCHANGED Rest

PureCalls ==
    StyleCalls \cup VoiceCalls \cup SceneCalls \cup MixCalls
        \cup FallbackCalls \cup BackgroundCalls \cup LyricsCalls

InitPure == Quiet /\ call \in PureCalls

NextPure ==
    \/ ApplyStyle
    \/ ApplyVoice
    \/ ApplyScene
    \/ ApplyMixAudio
    \/ ApplyProfessionalMix
    \/ ApplySynthesizeVoice
    \/ ApplyFallbackVoice
    \/ ApplyBackground
    \/ StoreLyrics
    \/ ReadLyrics

SpecPure == InitPure /\ [][NextPure]_vars

\* ------------------------------------------------- the rate limiter alone

\* The seconds at which requests arrive: the start, the last second of the
\* first minute, and the first second after it.
RateTimes == { 0, 59, 60 }

\* The clock moves on to a later second.
Tick ==
    /\ \E t \in RateTimes : t > now /\ now' = t
    /\ UNCHANGED << db, license, learnFile, agent, pc, loc, alarm, nreq,
                    faults, call, Guard, validated, Collab >>

\* A request of the client to any protected route reaches
\* enforce_rados_protection.
ClientRequest ==
    /\ LET e == enforce_rados_protection(ClientIp, security, now) IN
       /\ security' = e.sec
       /\ granted' = IF e.outcome = "true" THEN Append(granted, now)
                                           ELSE granted
    /\ UNCHANGED << db, license, learnFile, agent, pc, loc, alarm, nreq,
                    faults, call, now, validated, Collab >>

InitRate == Quiet /\ call = NoCall

NextRate == Tick \/ ClientRequest

SpecRate == InitRate /\ [][NextRate]_vars

\* ------------------------------------------- concurrent licence validation

\* Valid validations after which no further validation is started.
MaxValidations == 101

\* validate_license, first half: the licence row is loaded into the
\* request's own session.
LicenseQuery(w) ==
    /\ pc[w] = "idle"
    /\ validated < MaxValidations
    /\ SetLoc(w, [loc[w] EXCEPT !.route = "licensed", !.lic = license])
    /\ Goto(w, "validate")
    /\ UNCHANGED << db, license, learnFile, agent, alarm, nreq, faults, call,
                    now, Guard, validated, Collab >>

\* validate_license, second half: the checks are made on the loaded row,
\* `usage_count += 1` is computed from it and the row is updated with the
\* result.  The licence is not expired and the commit succeeds.
LicenseCommit(w) ==
    /\ pc[w] = "validate"
    /\ LET v == validate_license(LicenseKey, loc[w].lic, FALSE, TRUE) IN
       /\ license' = IF v.valid
                       THEN [license EXCEPT !.usage_count = v.lic.usage_count]
                       ELSE license
       /\ validated' = validated + Bit(v.valid)
    /\ SetLoc(w, IdleLoc)
    /\ Goto(w, "idle")
    /\ UNCHANGED << db, learnFile, agent, alarm, nreq, faults, call,
                    now, Guard, Collab >>

\* Two worker processes that validate the same key again and again.
NextLicense == \E w \in Workers : LicenseQuery(w) \/ LicenseCommit(w)

SpecLicense == InitConc /\ [][NextLicense]_vars

\* -------------------------------------------- generations and the clock

\* A request of the web form that no alarm and no exception interrupts.
StepFiles(w) ==
    \/ Generate(w)
    \/ GenerateLyrics(w)
    \/ LLMReturn(w)
    \/ SelectStyles(w)
    \/ CreateRecord(w)
    \/ Audio(w)
    \/ Video(w)
    \/ FinalCommit(w)
    \/ Learn(w)
    \/ ReturnResult(w)
    \/ RouteOk(w)
    \/ Finish(w)

\* Two worker processes serve the web form while the clock moves on.
NextFiles == Tick \/ \E w \in Workers : StepFiles(w)

SpecFiles == InitConc /\ [][NextFiles]_vars

\* ------------------------------------------- the collaboration system

\* Changes after which no further update is started.
MaxChanges == 101

\* `if len(self.live_updates[session_id]) > 100`
LiveUpdatesKept == 100

\* The session's creator, a user who joins and edits, a user who joins.
Owner  == "owner"
Editor == "editor"
Guest  == "guest"

\* self.user_roles[role]['can_edit']
user_roles_can_edit(role) == role \in {"owner", "collaborator"}

\* next((p for p in session['participants'] if p['id'] == user_id), None),
\* as the set of the positions of the first match.
FindParticipant(participants, user_id) ==
    { i \in 1..Len(participants) :
        /\ participants[i].id = user_id
        /\ \A j \in 1..(i - 1) : participants[j].id # user_id }

\* user.get('permissions', {}).get('can_edit', False)
CanEdit(user) ==
    user.permissions # "absent" /\ user_roles_can_edit(user.permissions)

\* A lock that any thread may pass.
LockFree_ignored(c) == TRUE

\* `with self.session_lock` can be entered.
LockFree(c) == c.session_lock = None

\* The last `keep` entries of a list: updates[-keep:].
LastOf(updates, keep) ==
    IF Len(updates) <= keep THEN updates
    ELSE SubSeq(updates, Len(updates) - keep + 1, Len(updates))

\* _broadcast_live_update: the change is appended and the last 100 kept.
broadcast_live_update(live_updates, change_record, sender) ==
    LET appended == Append(live_updates,
                       [ kind |-> "change", version |-> change_record.version,
                         sender |-> sender ])
    IN  IF Len(appended) > LiveUpdatesKept
          THEN LastOf(appended, LiveUpdatesKept)
          ELSE appended

\* _broadcast_user_joined: the notification is appended.
broadcast_user_joined(live_updates, user_name) ==
    Append(live_updates,
           [ kind |-> "user_joined", version |-> 0, sender |-> user_name ])

\* The calls a client may make: the owner creates the session; then the
\* editor and the guest join, and the owner and the editor send updates.
CollabCalls(c) ==
    IF ~c.active
      THEN { [ op |-> "create", user |-> Owner ] }
      ELSE { [ op |-> "join", user |-> Editor ],
             [ op |-> "join", user |-> Guest ],
             [ op |-> "update", user |-> Owner ] }
           \cup IF Len(c.live_changes) < MaxChanges
                  THEN { [ op |-> "update", user |-> Editor ] }
                  ELSE { }

SetThread(t, th) == threads' = [threads EXCEPT ![t] = th]

CollabRest ==
    << db, license, learnFile, agent, pc, loc, alarm, nreq, faults, call,
       now, Guard, validated >>

\* A call arrives at thread t and enters `with self.session_lock`.
Acquire(t) ==
    /\ threads[t].pc = "idle"
    /\ LockFree(collab)
    /\ \E c \in CollabCalls(collab) :
         SetThread(t, [ IdleThread EXCEPT !.pc = "locked", !.op = c.op,
                                         !.user = c.user ])
    /\ collab' = [collab EXCEPT !.session_lock = t]
    /\ UNCHANGED CollabRest

\* create_collaborative_session: the session is stored with its creator as
\* the one participant, role 'owner' and no 'permissions' entry.
CreateSession(t) ==
    /\ threads[t].pc = "locked" /\ threads[t].op = "create"
    /\ collab' = [collab EXCEPT
          !.session_lock = None,
          !.active = TRUE,
          !.participants = << [ id |-> threads[t].user, role |-> "owner",
                                permissions |-> "absent" ] >>,
          !.live_changes = << >>]
    /\ SetThread(t, IdleThread)
    /\ UNCHANGED CollabRest

\* join_collaborative_session: a user already in the session is only seen
\* again; a new one is added as a collaborator with that role's permissions
\* and the others are notified.
JoinSession(t) ==
    /\ threads[t].pc = "locked" /\ threads[t].op = "join"
    /\ IF FindParticipant(collab.participants, threads[t].user) # {}
         THEN collab' = [collab EXCEPT !.session_lock = None]
         ELSE collab' = [collab EXCEPT
                !.session_lock = None,
                !.participants = Append(@,
                    [ id |-> threads[t].user, role |-> "collaborator",
                      permissions |-> "collaborator" ]),
                !.live_updates = broadcast_user_joined(@, threads[t].user)]
    /\ SetThread(t, IdleThread)
    /\ UNCHANGED CollabRest

\* update_workspace_live up to the change record: the user is looked up and
\* must have can_edit, the update is applied to the workspace (which may
\* raise KeyError on a workspace without the section), and the record gets
\* the version len(live_changes) + 1.  An exception leaves the with block.
UpdateCheck(t) ==
    /\ threads[t].pc = "locked" /\ threads[t].op = "update"
    /\ LET found == FindParticipant(collab.participants, threads[t].user) IN
       IF found = {} \/ \E i \in found : ~CanEdit(collab.participants[i])
         THEN /\ SetThread(t, [threads[t] EXCEPT
                     !.pc = "raised", !.error = "PermissionError"])
              /\ collab' = [collab EXCEPT !.session_lock = None]
         ELSE \E applies \in BOOLEAN :
              IF applies
                THEN /\ SetThread(t, [threads[t] EXCEPT
                            !.pc = "record",
                            !.version = Len(collab.live_changes) + 1])
                     /\ UNCHANGED collab
                ELSE /\ SetThread(t, [threads[t] EXCEPT
                            !.pc = "raised", !.error = "KeyError"])
                     /\ collab' = [collab EXCEPT !.session_lock = None]
    /\ UNCHANGED CollabRest

\* update_workspace_live from the append on: the record is appended to
\* live_changes and broadcast, and the with block is left.
UpdateRecord(t) ==
    /\ threads[t].pc = "record"
    /\ LET change_record == [ user_id |-> threads[t].user,
                              version |-> threads[t].version ]
       IN  collab' = [collab EXCEPT
             !.session_lock = None,
             !.live_changes = Append(@, change_record),
             !.live_updates = broadcast_live_update(@, change_record,
                                                    threads[t].user)]
    /\ SetThread(t, IdleThread)
    /\ UNCHANGED CollabRest

\* `raise e`: the exception is logged and reaches the caller.
Reraise(t) ==
    /\ threads[t].pc = "raised"
    /\ SetThread(t, IdleThread)
    /\ UNCHANGED << collab, CollabRest >>

NextCollab ==
    \E t \in Threads :
        \/ Acquire(t)
        \/ CreateSession(t)
        \/ JoinSession(t)
        \/ UpdateCheck(t)
        \/ UpdateRecord(t)
        \/ Reraise(t)

SpecCollab == InitRate /\ [][NextCollab]_vars

\* ------------------------------------------- the harmonic progression

\* Longest requested duration, in milliseconds.
MaxDurationMs == 9

\* progressions.get(style, progressions['epic'])
Progression(style) ==
    CASE style = "epic"      -> << 1, 5, 6, 4 >>
      [] style = "dark"      -> << 1, 6, 4, 5 >>
      [] style = "emotional" -> << 6, 4, 1, 5 >>
      [] style = "gladiator" -> << 1, 7, 1, 5 >>
      [] style = "fantasy"   -> << 1, 3, 6, 4 >>
      [] style = "gregorian" -> << 1, 4, 5, 1 >>
      [] style = "pop"       -> << 6, 4, 1, 5 >>
      [] OTHER               -> << 1, 5, 6, 4 >>

\* len(generate_chord(base_freq, chord_num, duration)): the chord is
\* AudioSegment.silent(duration=duration) with a gain applied.
generate_chord_len(chord_num, duration) == duration

\* chord_duration = duration // len(progression)
ChordDuration(style, duration) == duration \div Len(Progression(style))

HarmonicCalls ==
    { [ fn |-> "generate_harmonic_progression", done |-> FALSE,
        style |-> st, duration |-> d, at |-> "chords", chord |-> 1,
        arrangement |-> 0, out |-> 0 ] :
        st \in { "epic", "dark", "emotional", "gladiator", "fantasy",
                 "gregorian", "pop", "unknown" },
        d \in 0..MaxDurationMs }

InHarmonic(at) ==
    /\ call.fn = "generate_harmonic_progression"
    /\ ~call.done
    /\ call.at = at

\* `for chord_num in progression: arrangement += chord`, the first pass.
HarmonicChords ==
    /\ InHarmonic("chords")
    /\ LET progression == Progression(call.style) IN
       IF call.chord > Len(progression)
         THEN call' = [call EXCEPT !.at = "while"]
         ELSE call' = [call EXCEPT
                !.chord = @ + 1,
                !.arrangement = @ + generate_chord_len(
                    progression[call.chord],
                    ChordDuration(call.style, call.duration))]
    /\ UNCHANGED Rest

\* `while len(arrangement) < duration:` is tested.
HarmonicWhile ==
    /\ InHarmonic("while")
    /\ IF call.arrangement < call.duration
         THEN call' = [call EXCEPT !.at = "for", !.chord = 1]
         ELSE call' = [call EXCEPT !.at = "return"]
    /\ UNCHANGED Rest

\* One round of the inner `for`: it ends with the progression, breaks once
\* the arrangement is long enough, and appends a chord otherwise.
HarmonicFor ==
    /\ InHarmonic("for")
    /\ LET progression == Progression(call.style) IN
       IF call.chord > Len(progression) \/ call.arrangement >= call.duration
         THEN call' = [call EXCEPT !.at = "while"]
         ELSE call' = [call EXCEPT
                !.chord = @ + 1,
                !.arrangement = @ + generate_chord_len(
                    progression[call.chord],
                    ChordDuration(call.style, call.duration))]
    /\ UNCHANGED Rest

\* `return arrangement[:duration]`
HarmonicReturn ==
    /\ InHarmonic("return")
    /\ call' = [call EXCEPT
          !.done = TRUE,
          !.out = MinOf(call.arrangement, call.duration)]
    /\ UNCHANGED Rest

InitHarmonic == Quiet /\ call \in HarmonicCalls

NextHarmonic ==
    \/ HarmonicChords
    \/ HarmonicWhile
    \/ HarmonicFor
    \/ HarmonicReturn

SpecHarmonic == InitHarmonic /\ [][NextHarmonic]_vars

\* The interpreter keeps running the call: a step that can be taken is taken.
SpecHarmonicLive == SpecHarmonic /\ WF_vars(NextHarmonic)

\* ================================================================ claims

\* The row of the Generation the orchestrator of worker w created.
HasRecord(w) == loc[w].gen.status # Unset /\ loc[w].gen.id # 0
Row(w) == db[loc[w].gen.id]

\* C1: every step leaves each Generation row's status where it is or moves
\* it along pending -> generating -> completed | failed; a row that is
\* completed or failed keeps its status for ever.
C1_StatusOnlyMovesForward ==
    [][ \A i \in 1..Len(db) :
          LET a == db[i].status
              b == db'[i].status
          IN  \/ a = b
              \/ a \in {"pending", "processing"}
                    /\ b \in {"generating", "completed", "failed"}
              \/ a = "generating" /\ b \in {"completed", "failed"} ]_vars

\* C2: when an exception leaves generate_complete_content, its record
\* exists and no commit of the request has raised, the row is failed and
\* carries the exception's message.
C2_FailedWithMessage ==
    \A w \in Workers :
        pc[w] = "route_exc" /\ HasRecord(w) /\ ~loc[w].stfail
                            /\ loc[w].exc # None
            => /\ Row(w).status = "failed"
               /\ Row(w).error_message = loc[w].exc

\* C3: while the LLM lyric call or the TTS call of a request is out, the
\* request's Generation row is already in the table.
C3_RecordBeforeExternalCall ==
    \A w \in Workers :
        pc[w] \in {"llm_call", "audio"} => HasRecord(w)

\* C4: style selection starts only with the lyrics (AI or template) at hand,
\* audio synthesis only with both styles chosen, video rendering only with
\* the audio phase's result, and the final update only with the video's.
C4_PhaseOrder ==
    \A w \in Workers :
        /\ pc[w] \in {"lyrics", "llm_call"}
              => loc[w].voice = Unset /\ loc[w].audio = Unset
                                      /\ loc[w].video = Unset
        /\ pc[w] = "style"
              => loc[w].lyrics # NoLyrics /\ loc[w].audio = Unset
                                          /\ loc[w].video = Unset
        /\ pc[w] \in {"create", "audio"}
              => loc[w].lyrics # NoLyrics /\ loc[w].voice # Unset
                    /\ loc[w].music # Unset /\ loc[w].audio = Unset
                    /\ loc[w].video = Unset
        /\ pc[w] = "video"
              => loc[w].lyrics # NoLyrics /\ loc[w].voice # Unset
                    /\ loc[w].audio # Unset /\ loc[w].video = Unset
        /\ pc[w] = "final"
              => loc[w].lyrics # NoLyrics /\ loc[w].voice # Unset
                    /\ loc[w].audio # Unset /\ loc[w].video # Unset

\* A request about to make its final update after the lyrics fell back to
\* the template.
C4_Witness ==
    \E w \in Workers :
        /\ pc[w] = "final"
        /\ loc[w].llm = "down"
        /\ loc[w].lyrics = generate_template_lyrics(loc[w].theme)
        /\ loc[w].video = VideoFileName(Timestamp(now))

\* C5: when the final commit has raised, the handler's step leaves the
\* existing row failed with the storage error's message on it.
C5_StorageErrorRecorded ==
    [][ \A w \in Workers :
          ( /\ pc[w] = "except" /\ pc'[w] = "route_exc"
            /\ HasRecord(w)
            /\ loc[w].exc = StorageMsg )
          => /\ db'[loc[w].gen.id].status = "failed"
             /\ db'[loc[w].gen.id].error_message = StorageMsg ]_vars

\* C6: a worker waiting in an LLM call that does not return can take a
\* step: something ends the wait.
C6_LLMCallBounded ==
    \A w \in Workers :
        pc[w] = "llm_call" /\ loc[w].llm = "hung" => ENABLED Step(w)

\* C7: with the LLM and the TTS both failing, and nothing else going wrong
\* (the mp3 export works, no commit raises, the alarm does not fire), the
\* orchestrator does not fail, and from its final commit on the row is
\* completed with an audio file.
C7_CompletesOffline ==
    \A w \in Workers :
        ( /\ loc[w].llm \in {"nokey", "down"}
          /\ loc[w].tts = "down"
          /\ loc[w].enc = "up"
          /\ ~loc[w].stfail
          /\ alarm[w] # "fired" )
        => /\ pc[w] \notin {"except", "route_exc"}
           /\ pc[w] \in {"learn", "return", "route_ok"}
                 => /\ HasRecord(w)
                    /\ Row(w).status = "completed"
                    /\ Row(w).audio_file # None
                    /\ Row(w).audio_file = loc[w].audio

\* The offline request has gone through its final commit.
C7_Witness ==
    \E w \in Workers :
        /\ pc[w] = "route_ok"
        /\ loc[w].llm = "down"
        /\ loc[w].tts = "down"
        /\ loc[w].enc = "up"
        /\ ~loc[w].stfail
        /\ alarm[w] # "fired"
        /\ Row(w).status = "completed"

\* C8: a request that is past its final commit has a row with a video file,
\* whatever happened in the video phase.
C8_VideoNeverNull ==
    \A w \in Workers :
        pc[w] \in {"learn", "return", "route_ok"} /\ HasRecord(w)
            => Row(w).status = "completed" /\ Row(w).video_file # None

\* C9: no Generation row has an empty theme or one shorter than 3 characters.
C9_NoRecordForShortTheme ==
    \A i \in 1..Len(db) : Len(db[i].theme) >= 3

\* C10: logs/ai_learning.json holds one successful combination for each
\* generation the agents have learned from.
C10_NoLearningEntryLost ==
    Len(learnFile.successful_combinations)
        = agent["w1"].generation_count + agent["w2"].generation_count

\* C11: the table of successful combinations, in the agent and in
\* logs/ai_learning.json, never holds more than 100 entries.
C11_CombinationsCapped ==
    /\ Len(learnFile.successful_combinations) <= HistoryCap
    /\ \A w \in Workers :
          Len(agent[w].learning_data.successful_combinations) <= HistoryCap

\* C12: when recorded combinations match the requested theme, the selected
\* music style is that of the last matching entry of the list.
C12_MostRecentMatchWins ==
    call.fn = "analyze_lyrics_for_style" /\ call.done =>
        LET t    == Lower(call.theme)
            hits == { i \in 1..Len(call.combos) :
                        Contains(Lower(call.combos[i].theme), t) }
        IN  hits # {} =>
              call.out =
                call.combos[CHOOSE i \in hits : \A j \in hits : j <= i].style

\* C13: the selected voice style is the one the priority table gives for the
\* lyrics and the theme taken together.
C13_VoiceFromLyricsAndTheme ==
    call.fn = "analyze_lyrics_for_voice" /\ call.done =>
        call.out = analyze_lyrics_for_voice(
                       call.lyrics_text \o <<" ">> \o call.theme)

\* C14: a verse whose text holds a battle word and a sacred word is
\* classified as the battle scene, whatever its verse type and whichever
\* word comes first.
C14_BattleBeforeDivine ==
    call.fn = "analyze_scene_for_lyrics" /\ call.done =>
        ( AnyIn(BattleWords, Lower(call.lyrics))
            /\ AnyIn(SacredWords, Lower(call.lyrics))
          => call.out = "epic_battle" )

\* A chorus that names the sacred word before the battle word has been
\* classified.
C14_Witness ==
    /\ call.fn = "analyze_scene_for_lyrics" /\ call.done
    /\ call.lyrics = KwDivine \o <<" ">> \o KwBattle
    /\ call.verse_type = "chorus"
    /\ call.out = "epic_battle"

\* C15: with a non-empty theme and an LLM that is not configured, raises or
\* hangs, the lyrics the generation goes on with are the template's, and
\* their full_text is not empty.
C15_FallbackLyricsNonEmpty ==
    \A w \in Workers :
        ( /\ loc[w].theme # <<>>
          /\ loc[w].llm \in {"nokey", "down", "hung"}
          /\ pc[w] \in {"style", "create", "audio", "video", "final",
                        "learn", "return", "route_ok"} )
        => /\ loc[w].lyrics = generate_template_lyrics(loc[w].theme)
           /\ loc[w].lyrics.full_text # <<>>
           /\ \E i \in 1..Len(loc[w].lyrics.full_text) :
                 loc[w].lyrics.full_text[i] # ""

\* A generation whose LLM call hung has returned its result.
C15_Witness ==
    \E w \in Workers :
        /\ pc[w] = "route_ok"
        /\ loc[w].llm = "hung"
        /\ loc[w].theme = ThemeWar
        /\ Len(loc[w].lyrics.full_text) = 4

\* C16: a mix is as long as the longer of its two tracks, and every
\* millisecond of the voice and of the background is heard in it.
C16_MixLengthIsMax ==
    call.fn \in {"mix_audio", "create_professional_mix"} /\ call.done =>
        /\ Len(call.out) = MaxOf(Len(call.voice), Len(call.music))
        /\ Cardinality({ i \in 1..Len(call.out) : "voice" \in call.out[i] })
              = Len(call.voice)
        /\ Cardinality({ i \in 1..Len(call.out) : "music" \in call.out[i] })
              = Len(call.music)

\* C17: when the TTS call has failed, the voice that is returned lasts
\* 100 ms per character of the text, at least 3000 ms and at most 30000 ms.
C17_FallbackVoiceDuration ==
    ( /\ call.fn \in {"synthesize_voice", "create_fallback_voice"}
      /\ call.done
      /\ call.tts = "down" )
    => call.out = MaxOf(3000, MinOf(100 * call.text_len, 30000))

\* C18: the background track is shorter than duration_ms by at most one
\* sample, its length in ms is within 1 of duration_ms, and no sample
\* exceeds 0.7 of full scale.
C18_BackgroundLengthAndPeak ==
    call.fn = "generate_background_music" /\ call.done =>
        LET t       == call.out
            missing == t.frame_rate * call.duration_ms - 1000 * t.frames
        IN  /\ 0 <= missing /\ missing <= 1000
            /\ LenMs(t) - call.duration_ms \in -1..1
            /\ 1000 * t.peak <= PeakCeiling * Int16Max

\* A 350 ms dark track has come out one sample short.
C18_Witness ==
    /\ call.fn = "generate_background_music" /\ call.done
    /\ call.style = "dark"
    /\ call.duration_ms = 350
    /\ call.out.frames = 15434
    /\ call.out.peak > 0

C20_NoRecordLeftGenerating ==
    \A w \in Workers :
        pc[w] \in {"route_ok", "route_exc"} /\ HasRecord(w)
            => Row(w).status \in {"completed", "failed"}

\* C21: when the 25 s alarm has fired while generate_complete_content was
\* running and no commit of the request has raised, the /generate request
\* ends with the 'Generation timed out' response, never with the success
\* redirect.
C21_TimeoutEndsRequest ==
    [][ \A w \in Workers :
          ( /\ alarm[w] = "fired"
            /\ loc[w].route = "generate"
            /\ ~loc[w].stfail
            /\ pc[w] \in {"route_ok", "route_exc"}
            /\ pc'[w] = "done" )
          => loc'[w].resp = "timed_out" ]_vars

\* C22: a /generate request that enforce_rados_protection denies ends at
\* once: generate_complete_content is not entered and no Generation record
\* is created.
C22_DeniedNeverGenerates ==
    [][ \A w \in Workers :
          ( /\ pc[w] = "idle" /\ pc'[w] # "idle"
            /\ loc'[w].route = "generate"
            /\ enforce_rados_protection(ClientIp, security, now).outcome
                  # "true" )
          => /\ pc'[w] = "done"
             /\ db' = db ]_vars

\* A request over the rate limit has been answered with the error page.
C22_Witness ==
    \E w \in Workers :
        /\ pc[w] = "done"
        /\ loc[w].route = "generate"
        /\ loc[w].resp = "error_page"
        /\ Len(security.rate_limits[ClientIp]) = MaxRequestsPerMinute
        /\ db = << >>

\* C23: at every moment, the requests of a client that were let in during
\* the last 60 seconds are at most 60.
C23_AtMostSixtyPerMinute ==
    \A t \in RateTimes :
        Cardinality({ i \in 1..Len(granted) :
                        t - MinuteWindow < granted[i] /\ granted[i] <= t })
            <= MaxRequestsPerMinute

\* Thirty requests were let in at second 0 and thirty at second 59; at
\* second 60 the first thirty have left the window and one more is let in.
C23_Witness ==
    /\ now = 60
    /\ Len(granted) = 61
    /\ Cardinality({ i \in 1..Len(granted) : granted[i] = 0 }) = 30
    /\ Cardinality({ i \in 1..Len(granted) : granted[i] = 59 }) = 30
    /\ Len(security.rate_limits[ClientIp]) = 31

\* C24: for a licence with a usage limit, the validate_license calls that
\* have returned valid are never more than max_usage.
C24_ValidWithinMaxUsage ==
    license.max_usage # -1 => validated <= license.max_usage

\* C25: a licensed request that has passed validation and been answered
\* with success has created exactly one Generation record.
C25_OneRecordPerLicensedRequest ==
    \A w \in Workers :
        ( /\ loc[w].route = "licensed"
          /\ pc[w] = "done"
          /\ loc[w].resp = "200" )
        => Cardinality({ loc[w].outer.id, loc[w].gen.id } \ {0}) = 1

\* C26: two Generation rows never name the same audio file, and never the
\* same video file.
C26_FilePathsDistinct ==
    \A i, j \in 1..Len(db) :
        i # j =>
            /\ db[i].audio_file = None \/ db[i].audio_file # db[j].audio_file
            /\ db[i].video_file = None \/ db[i].video_file # db[j].video_file

\* C27: the user who created the session is allowed by update_workspace_live
\* to update it: the owner's update does not end in PermissionError.
C27_OwnerMayUpdate ==
    \A t \in Threads :
        ( /\ threads[t].pc = "raised"
          /\ threads[t].op = "update"
          /\ threads[t].user = Owner )
        => threads[t].error # "PermissionError"

\* C28: under every interleaving of the threads, the i-th recorded change
\* of the session carries version i.
C28_VersionsInOrder ==
    \A i \in 1..Len(collab.live_changes) :
        collab.live_changes[i].version = i

\* Two changes are recorded and a thread holds the record of the third.
C28_Witness ==
    /\ Len(collab.live_changes) = 2
    /\ \E t \in Threads :
          /\ threads[t].pc = "record"
          /\ threads[t].version = 3

\* C29: the live-update list of a session never holds more than 100 entries.
C29_LiveUpdatesCapped ==
    Len(collab.live_updates) <= LiveUpdatesKept

\* C30: generate_harmonic_progression returns for every style and every
\* duration of 0 ms or more, with a track exactly `duration` ms long.
C30_HarmonicTerminates ==
    <>(call.done /\ call.out = call.duration)

====
